---- MODULE Spec2Model ----
(***************************************************************************)
(* Model of the go-migrate engine (package migrate, Migrator.Migrate):     *)
(* one timeout-bounded transaction that creates the ledger table, checks   *)
(* the hashes of the files the ledger knows, executes the files that are   *)
(* not applied, upserts a ledger row per executed file and commits.        *)
(*                                                                         *)
(* File and directory names are natural numbers; their numeric order       *)
(* stands for the lexical order of the names (fs.WalkDir visits the        *)
(* entries of a directory sorted by name).                                 *)
(***************************************************************************)
EXTENDS Naturals, Sequences, FiniteSets

\* ----------------------------------------------------------------- bounds
MaxName == 2

MaxFiles == 2

MaxRuns == 2

MaxProcs == 2

\* --------------------------------------------------------------- universe
Names == 1..MaxName

\* File contents (byte strings).  A content whose first byte is 0 stands for
\* a statement batch the database rejects (invalid SQL).
Contents == {<<0>>, <<1>>, <<1, 2>>}

ValidSql(content) == content[1] # 0

\* A file of the embedded tree lives in the root (<<n>>) or in a directory of
\* the root (<<d, n>>).
Paths == {<<n>> : n \in Names} \cup {<<d, n>> : d \in Names, n \in Names}

\* A name of the root is a file or a directory, never both.
WellFormed(S) == \A p \in S : Len(p) = 2 => <<p[1]>> \notin S

\* The embedded trees of the model: functions from the paths of the files to
\* their contents.
Trees ==
  UNION {[S -> Contents] :
           S \in {T \in SUBSET Paths : Cardinality(T) <= MaxFiles /\ WellFormed(T)}}

\* ------------------------------------------------------------ fs.WalkDir
RootPath == <<>>

DotName == 0

Dirs(tree) == {RootPath} \cup {<<p[1]>> : p \in {q \in DOMAIN tree : Len(q) = 2}}

Entries(tree) == Dirs(tree) \cup DOMAIN tree

IsDir(tree, p) == p \in Dirs(tree)

\* fs.DirEntry.Name(): the last element of the path ("." for the root).
BaseName(p) == IF p = RootPath THEN DotName ELSE p[Len(p)]

\* Pre-order of the walk: a directory before its entries, the entries of a
\* directory in ascending order of their names.
PathLess(p, q) ==
  \/ /\ Len(p) < Len(q)
     /\ \A i \in 1..Len(p) : p[i] = q[i]
  \/ \E i \in 1..Len(p) :
       /\ i <= Len(q)
       /\ p[i] < q[i]
       /\ \A j \in 1..(i - 1) : p[j] = q[j]

\* Faulty variant: the entries are visited in descending order.
WalkDir_Descending(tree) ==
  LET E == Entries(tree)
      n == Cardinality(E)
  IN  [i \in 1..n |->
         CHOOSE p \in E : Cardinality({q \in E : PathLess(p, q)}) = i - 1]

\* The sequence of paths fs.WalkDir(tree, ".", fn) hands to fn.
WalkDir(tree) ==
  LET E == Entries(tree)
      n == Cardinality(E)
  IN  [i \in 1..n |->
         CHOOSE p \in E : Cardinality({q \in E : PathLess(q, p)}) = i - 1]

\* --------------------------------------------------------------- hashFile
Decimal(b) == CASE b = 0 -> "0" [] b = 1 -> "1" [] b = 2 -> "2" [] OTHER -> "3"

RECURSIVE JoinBytes(_)
JoinBytes(bytes) ==
  IF Len(bytes) = 0 THEN <<>>
  ELSE IF Len(bytes) = 1 THEN <<Decimal(bytes[1])>>
  ELSE <<Decimal(bytes[1]), " ">> \o JoinBytes(Tail(bytes))

\* fmt.Appendf(nil, "%v", value) of a []byte: "[b1 b2 ...]" in decimal.
Appendf(bytes) == <<"[">> \o JoinBytes(bytes) \o <<"]">>

\* The hex digest of SHA-256, taken as collision free: the digest stands for
\* the text that was hashed and for nothing else.
Sha256Hex(text) == [sha256 |-> text]

hashFile(value) == Sha256Hex(Appendf(value))

Hashes == {hashFile(c) : c \in Contents}

\* migration_hash VARCHAR(64) is nullable: SQL NULL, the digest of no text.
NullHash == [sha256 |-> <<"NULL">>]

\* ----------------------------------------------------------- migrationRow
migrationRow(name, hash, applied) ==
  [MigrationName |-> name, MigrationHash |-> hash, IsApplied |-> applied]

\* findMigrationByName: ok is FALSE when no row carries the name.
HasMigration(rows, name) == \E r \in rows : r.MigrationName = name

findMigrationByName(rows, name) == CHOOSE r \in rows : r.MigrationName = name

\* The names (primary keys) of the rows.
RowNames(rows) == {r.MigrationName : r \in rows}

\* Faulty variant: no primary key, every upsert adds a row.
upsertMigration_NoKey(rows, row) == rows \cup {row}

\* Faulty variant: the upsert replaces the table by the row.
upsertMigration_Replace(rows, row) == {row}

\* Faulty variant: ON CONFLICT DO NOTHING, the first row of a name stays.
upsertMigration_KeepFirst(rows, row) ==
  IF HasMigration(rows, row.MigrationName) THEN rows ELSE rows \cup {row}

\* INSERT ... ON CONFLICT(migration_name) DO UPDATE SET hash, is_applied.
upsertMigration(rows, row) ==
  {r \in rows : r.MigrationName # row.MigrationName} \cup {row}

\* ----------------------------------------------------------------- errors
NoName == 0

Err(msg, is, name) == [msg |-> msg, is |-> is, name |-> name]

Nil == Err("nil", {}, NoName)

ErrMigrationFileChanged ==
  Err("migration file has changed", {"ErrMigrationFileChanged"}, NoName)

\* errors.Is(err, target) for the sentinels and causes of the model.
ErrorsIs(err, target) == target \in err.is

\* Faulty variant: the error wraps the database error only.
ExecError_NoSentinel(name, cause) ==
  Err("walk migrations: execute migration", {cause}, name)

\* fmt.Errorf("execute migration %q: %w: %w", name, err, ErrMigrationFailed),
\* wrapped by Migrate() in "walk migrations: %w".
ExecError(name, cause) ==
  Err("walk migrations: execute migration", {cause, "ErrMigrationFailed"}, name)

\* ---------------------------------------------------------------- options
\* options{migrationTimeout: 10 * time.Second}, in seconds.
DefaultTimeout == 10

\* WithMigrationTimeout(timeout): the option sets the timeout.
WithMigrationTimeout(timeout, o) == [o EXCEPT !.migrationTimeout = timeout]

RECURSIVE ApplyOptions(_, _)
\* for _, o := range opts { o(opt) }
ApplyOptions(o, timeouts) ==
  IF Len(timeouts) = 0 THEN o
  ELSE ApplyOptions(WithMigrationTimeout(Head(timeouts), o), Tail(timeouts))

\* Faulty variant: only the first option is applied.
NewMigrator_FirstOption(timeouts) ==
  IF Len(timeouts) = 0 THEN [migrationTimeout |-> DefaultTimeout]
  ELSE WithMigrationTimeout(Head(timeouts), [migrationTimeout |-> DefaultTimeout])

\* NewMigrator(db, migrations, opts...): the options of the Migrator.
NewMigrator(timeouts) ==
  ApplyOptions([migrationTimeout |-> DefaultTimeout], timeouts)

\* ------------------------------------------------------------------ state
VARIABLES
  ledger,           \* committed rows of table migrations
  migrations,       \* Migrator.migrations: the embedded tree of the run
  pc,               \* position of Migrate()
  tx,               \* "none" | "open" | "committed" | "rolledback"
  txRows,           \* rows of table migrations as the transaction sees them
  knownMigrations,  \* the rows read by getMigrationsKnownToDb
  walkIdx,          \* index of the next entry of the current walk
  ctxDone,          \* timeoutCtx has expired
  ret,              \* the error returned by the last Migrate()
  runs,             \* number of Migrate() calls started
  before,           \* history: ledger when the run started
  executed,         \* history: paths whose content tx.Exec ran, in order
  failedAt,         \* history: paths whose tx.Exec failed in the run
  upserted,         \* history: names upserted in the run, in order
  envFault,         \* history: the database failed or the timeout expired
  prev,             \* history: what the run before was (see Start)
  commitRuns,       \* history: per name, committed runs that executed it
  opts,             \* the timeouts of the options handed to NewMigrator
  options,          \* Migrator.options
  deadline,         \* the deadline of timeoutCtx, in seconds after the call
  clock,            \* seconds since Migrate() was called
  opc,              \* position of the timed run
  granted,          \* history: the times at which Conn and BeginTx succeeded
  procPc,           \* concurrent invocations: position of each Migrate()
  procTx,           \* state of each invocation's transaction
  procDone,         \* whether each invocation's timeoutCtx is done
  procKnown,        \* each invocation's knownMigrations
  procIdx,          \* each invocation's position in its apply walk
  procWrites,       \* the rows each transaction has upserted
  procExecuted,     \* history: the files each invocation has executed
  procRet,          \* what each Migrate() returned
  table             \* the migrations table: absent, there, or created by
                    \* an invocation's open transaction

mainVars == <<ledger, migrations, pc, tx, txRows, knownMigrations, walkIdx,
              ctxDone, ret, runs, before, executed, failedAt, upserted, envFault,
              prev, commitRuns>>

optVars == <<opts, options, deadline, clock, opc, granted>>

procVars == <<procPc, procTx, procDone, procKnown, procIdx, procWrites,
              procExecuted, procRet, table>>

\* The state of the single invocation other than the database and the tree.
runVars == <<pc, tx, txRows, knownMigrations, walkIdx, ctxDone, ret, runs,
             before, executed, failedAt, upserted, envFault, prev, commitRuns>>

vars == <<mainVars, optVars, procVars>>

EmptyTree == [p \in {} |-> <<0>>]

\* The concurrent invocations of Migrate(), all at one position, with the
\* table in the given state.
Procs == 1..MaxProcs

TableAbsent == [state |-> "absent", by |-> 0]

TableExists == [state |-> "exists", by |-> 0]

TableCreatedBy(i) == [state |-> "created", by |-> i]

ProcsAt(position, tableState) ==
  /\ procPc = [i \in Procs |-> position]
  /\ procTx = [i \in Procs |-> "none"]
  /\ procDone = [i \in Procs |-> FALSE]
  /\ procKnown = [i \in Procs |-> {}]
  /\ procIdx = [i \in Procs |-> 1]
  /\ procWrites = [i \in Procs |-> {}]
  /\ procExecuted = [i \in Procs |-> <<>>]
  /\ procRet = [i \in Procs |-> Nil]
  /\ table = tableState

Init ==
  /\ ledger = {}
  /\ migrations = EmptyTree
  /\ pc = "idle"
  /\ tx = "none"
  /\ txRows = {}
  /\ knownMigrations = {}
  /\ walkIdx = 1
  /\ ctxDone = FALSE
  /\ ret = Nil
  /\ runs = 0
  /\ before = {}
  /\ executed = <<>>
  /\ failedAt = {}
  /\ upserted = <<>>
  /\ envFault = FALSE
  /\ prev = [same |-> FALSE, ok |-> FALSE, fromEmpty |-> FALSE,
            failedTree |-> EmptyTree]
  /\ commitRuns = [n \in Names |-> 0]
  /\ opts = <<>>
  /\ options = NewMigrator(<<>>)
  /\ deadline = 0
  /\ clock = 0
  /\ opc = "new"
  /\ granted = <<>>
  /\ ProcsAt("none", TableExists)

\* ------------------------------------------------- database and transaction
\* Outcomes of an operation on the connection pool under timeoutCtx.
ConnOutcomes == IF ctxDone THEN {"DeadlineExceeded"} ELSE {"ok", "dbErr"}

\* Faulty variant: the statements ignore the state of the transaction.
TxOutcomes_IgnoresTx == {"ok", "dbErr"}

\* Outcomes of an operation on tx: a transaction the expired context has
\* rolled back answers every operation with sql.ErrTxDone.
TxOutcomes == IF tx = "open" THEN {"ok", "dbErr"} ELSE {"ErrTxDone"}

\* rows.Scan(&migration.MigrationName, &migration.MigrationHash, ...) scans
\* into a string, which takes no NULL.
Scannable(rows) == \A r \in rows : r.MigrationHash # NullHash

\* Outcomes of getMigrationsKnownToDb(tx): the query may fail as any
\* operation on tx, and the scan fails on a row it cannot hold.
QueryOutcomes(rows) ==
  IF Scannable(rows) \/ "ok" \notin TxOutcomes
  THEN TxOutcomes
  ELSE (TxOutcomes \ {"ok"}) \cup {"scanErr"}

\* Outcomes of tx.Exec(string(readBytes)): the database rejects invalid SQL.
ExecOutcomes(content) ==
  IF tx # "open" THEN {"ErrTxDone"}
  ELSE IF ValidSql(content) THEN {"ok", "dbErr"} ELSE {"sqlErr"}

IsFault(outcome) == outcome \in {"dbErr", "DeadlineExceeded", "ErrTxDone"}

\* Faulty variant: the statements take effect outside the transaction, so a rollback
\* keeps the rows they wrote.
Rollback_KeepsRows(t, committed, rows) ==
  IF t = "open" THEN [tx |-> "rolledback", ledger |-> rows]
  ELSE [tx |-> t, ledger |-> committed]

\* Faulty variant: no deferred rollback, the transaction is left open.
Rollback_Missing(t, committed, rows) == [tx |-> t, ledger |-> committed]

\* tx.Rollback(): ends an open transaction and discards its rows; a no-op
\* (sql.ErrTxDone) on a transaction that is committed or rolled back already.
Rollback(t, committed, rows) ==
  IF t = "open" THEN [tx |-> "rolledback", ledger |-> committed]
  ELSE [tx |-> t, ledger |-> committed]

\* What tx.Commit() makes of the committed rows.
Commit(committed, rows) == rows

\* Migrate() returns err; the deferred tx.Rollback() and cancel() run.
Return(err) ==
  /\ pc' = "idle"
  /\ ret' = err
  /\ tx' = Rollback(tx, ledger, txRows).tx
  /\ ledger' = Rollback(tx, ledger, txRows).ledger

\* ------------------------------------------------------- the walk callbacks
\* Faulty variant: the hashes are not compared.
CheckEntry_NoCompare(known, tree, p) == "nil"

\* The callback of checkIfMigrationsAreAltered on one entry: "nil" or the
\* error "migration %q has been altered".
CheckEntry(known, tree, p) ==
  IF IsDir(tree, p) THEN "nil"
  ELSE IF ~HasMigration(known, BaseName(p)) THEN "nil"
  ELSE IF hashFile(tree[p]) # findMigrationByName(known, BaseName(p)).MigrationHash
       THEN "altered"
       ELSE "nil"

\* Faulty variant: applied files are executed again.
SkipEntry_NeverSkipsFiles(known, tree, p) == IsDir(tree, p)

\* The callback of handleMigration returns nil without executing the entry.
SkipEntry(known, tree, p) ==
  \/ IsDir(tree, p)
  \/ /\ HasMigration(known, BaseName(p))
     /\ findMigrationByName(known, BaseName(p)).IsApplied

\* ------------------------------------------------------------------ actions
History == <<before, executed, failedAt, upserted, prev, commitRuns>>

\* A new build of the program embeds a tree that differs from the last one in
\* one file: a file is added, removed, or its content changed.
AddFile(tree, p, c) == [q \in DOMAIN tree \cup {p} |-> IF q = p THEN c ELSE tree[q]]

RemoveFile(tree, p) == [q \in DOMAIN tree \ {p} |-> tree[q]]

Edits(tree) ==
  {AddFile(tree, p, c) : p \in Paths, c \in Contents}
    \cup {RemoveFile(tree, p) : p \in DOMAIN tree}

\* History: the tree of the last run, if that run executed a file and then
\* failed on a later one; the empty tree otherwise.
FailedTree ==
  IF pc = "built" THEN prev.failedTree
  ELSE IF ErrorsIs(ret, "ErrMigrationFailed") /\ executed # <<>>
       THEN migrations
       ELSE EmptyTree

\* The history is kept while the builds since that run only change contents.
Corrected(fs) ==
  IF DOMAIN fs = DOMAIN FailedTree THEN FailedTree ELSE EmptyTree

Build(fs) ==
  /\ UNCHANGED <<optVars, procVars>>
  /\ pc \in {"idle", "built"}
  /\ runs < MaxRuns
  /\ fs # migrations
  /\ fs \in Trees
  /\ migrations' = fs
  /\ pc' = "built"
  /\ tx' = "none"
  /\ ret' = Nil
  /\ before' = {}
  /\ executed' = <<>>
  /\ failedAt' = {}
  /\ upserted' = <<>>
  /\ envFault' = FALSE
  /\ prev' = [same |-> FALSE, ok |-> FALSE, fromEmpty |-> FALSE,
              failedTree |-> Corrected(fs)]
  /\ UNCHANGED <<ledger, txRows, knownMigrations, walkIdx, ctxDone, runs,
                 commitRuns>>

\* NewMigrator(db, migrations).Migrate() is called: context.WithTimeout.
Start ==
  /\ UNCHANGED <<optVars, procVars>>
  /\ pc \in {"idle", "built"}
  /\ runs < MaxRuns
  /\ runs' = runs + 1
  /\ pc' = "conn"
  /\ tx' = "none"
  /\ ctxDone' = FALSE
  /\ ret' = Nil
  /\ before' = ledger
  /\ executed' = <<>>
  /\ failedAt' = {}
  /\ upserted' = <<>>
  /\ envFault' = FALSE
  /\ prev' = [same |-> pc = "idle" /\ runs > 0,
              ok |-> pc = "idle" /\ runs > 0 /\ ret = Nil,
              fromEmpty |-> pc = "idle" /\ runs > 0 /\ before = {},
              failedTree |-> FailedTree]
  /\ UNCHANGED <<ledger, migrations, txRows, knownMigrations, walkIdx,
                 commitRuns>>

\* The timeout expires while Migrate() runs: the context is canceled and
\* database/sql rolls the open transaction back.
Timeout ==
  /\ UNCHANGED <<optVars, procVars>>
  /\ pc \notin {"idle", "built"}
  /\ ~ctxDone
  /\ ctxDone' = TRUE
  /\ tx' = Rollback(tx, ledger, txRows).tx
  /\ ledger' = Rollback(tx, ledger, txRows).ledger
  /\ envFault' = TRUE
  /\ UNCHANGED <<migrations, pc, txRows, knownMigrations, walkIdx, ret,
                 runs, before, executed, failedAt, upserted, prev, commitRuns>>

\* conn, err := m.db.Conn(timeoutCtx)
Conn ==
  /\ UNCHANGED <<optVars, procVars>>
  /\ pc = "conn"
  /\ \E o \in ConnOutcomes :
       /\ envFault' = (envFault \/ IsFault(o))
       /\ IF o = "ok"
          THEN pc' = "begin" /\ UNCHANGED <<ret, tx, ledger>>
          ELSE Return(Err("get connection", {o}, NoName))
  /\ UNCHANGED <<migrations, txRows, knownMigrations, walkIdx, ctxDone,
                 runs>>
  /\ UNCHANGED History

\* tx, err := conn.BeginTx(timeoutCtx, nil)
BeginTx ==
  /\ UNCHANGED <<optVars, procVars>>
  /\ pc = "begin"
  /\ \E o \in ConnOutcomes :
       /\ envFault' = (envFault \/ IsFault(o))
       /\ IF o = "ok"
          THEN pc' = "createTable" /\ tx' = "open" /\ txRows' = ledger
               /\ UNCHANGED <<ret, ledger>>
          ELSE Return(Err("begin transaction", {o}, NoName)) /\ UNCHANGED txRows
  /\ UNCHANGED <<migrations, knownMigrations, walkIdx, ctxDone, runs>>
  /\ UNCHANGED History

\* _, err = tx.Exec(migrationTableQuery)
CreateTable ==
  /\ UNCHANGED <<optVars, procVars>>
  /\ pc = "createTable"
  /\ \E o \in TxOutcomes :
       /\ envFault' = (envFault \/ IsFault(o))
       /\ IF o = "ok"
          THEN pc' = "checkQuery" /\ UNCHANGED <<ret, tx, ledger>>
          ELSE Return(Err("create migrations table", {o}, NoName))
  /\ UNCHANGED <<migrations, txRows, knownMigrations, walkIdx, ctxDone,
                 runs>>
  /\ UNCHANGED History

\* checkIfMigrationsAreAltered(tx, m.migrations): getMigrationsKnownToDb.  When
\* the query fails the callback returns an error on the root entry, and
\* Migrate() answers every error of this walk with ErrMigrationFileChanged.
CheckQuery ==
  /\ UNCHANGED <<optVars, procVars>>
  /\ pc = "checkQuery"
  /\ \E o \in QueryOutcomes(txRows) :
       /\ envFault' = (envFault \/ IsFault(o))
       /\ IF o = "ok"
          THEN /\ knownMigrations' = txRows
               /\ walkIdx' = 1
               /\ pc' = "checkWalk"
               /\ UNCHANGED <<ret, tx, ledger>>
          ELSE /\ Return(ErrMigrationFileChanged)
               /\ UNCHANGED <<knownMigrations, walkIdx>>
  /\ UNCHANGED <<migrations, txRows, ctxDone, runs>>
  /\ UNCHANGED History

\* One call of the callback of the first fs.WalkDir.
CheckStep ==
  /\ UNCHANGED <<optVars, procVars>>
  /\ pc = "checkWalk"
  /\ LET order == WalkDir(migrations)
         p == order[walkIdx]
     IN  IF CheckEntry(knownMigrations, migrations, p) = "nil"
         THEN /\ IF walkIdx < Len(order)
                 THEN walkIdx' = walkIdx + 1 /\ pc' = pc
                 ELSE walkIdx' = 1 /\ pc' = "applyQuery"
              /\ UNCHANGED <<ret, tx, ledger>>
         ELSE /\ Return(ErrMigrationFileChanged)
              /\ UNCHANGED walkIdx
  /\ UNCHANGED <<migrations, txRows, knownMigrations, ctxDone, runs,
                 envFault>>
  /\ UNCHANGED History

\* handleMigration(tx, m.migrations): getMigrationsKnownToDb.  The callback of
\* the failed query wraps its own (nil) err parameter, not the query's error.
ApplyQuery ==
  /\ UNCHANGED <<optVars, procVars>>
  /\ pc = "applyQuery"
  /\ \E o \in QueryOutcomes(txRows) :
       /\ envFault' = (envFault \/ IsFault(o))
       /\ IF o = "ok"
          THEN /\ knownMigrations' = txRows
               /\ walkIdx' = 1
               /\ pc' = "applyWalk"
               /\ UNCHANGED <<ret, tx, ledger>>
          ELSE /\ Return(Err("walk migrations: get known migrations", {}, NoName))
               /\ UNCHANGED <<knownMigrations, walkIdx>>
  /\ UNCHANGED <<migrations, txRows, ctxDone, runs>>
  /\ UNCHANGED History

\* Faulty variant: Migrate() returns after the walk without committing.
NextEntry_SkipsCommit ==
  IF walkIdx < Len(WalkDir(migrations))
  THEN walkIdx' = walkIdx + 1 /\ pc' = pc
  ELSE walkIdx' = 1 /\ pc' = "idle"

\* The callback of the second walk moves on to the next entry.
NextEntry ==
  IF walkIdx < Len(WalkDir(migrations))
  THEN walkIdx' = walkIdx + 1 /\ pc' = pc
  ELSE walkIdx' = 1 /\ pc' = "commit"

\* One call of the callback of the second fs.WalkDir: skip, or execute the
\* file and upsert its row.
ApplyStep ==
  /\ UNCHANGED <<optVars, procVars>>
  /\ pc = "applyWalk"
  /\ LET p == WalkDir(migrations)[walkIdx]
         name == BaseName(p)
     IN  IF SkipEntry(knownMigrations, migrations, p)
         THEN /\ NextEntry
              /\ UNCHANGED <<ret, tx, ledger, txRows, executed, failedAt, upserted,
                             envFault>>
         ELSE \E o \in ExecOutcomes(migrations[p]) :
                IF o # "ok"
                THEN /\ Return(ExecError(name, o))
                     /\ failedAt' = failedAt \cup {p}
                     /\ envFault' = (envFault \/ IsFault(o))
                     /\ UNCHANGED <<walkIdx, txRows, executed, upserted>>
                ELSE /\ executed' = Append(executed, p)
                     /\ UNCHANGED failedAt
                     /\ \E u \in TxOutcomes :
                          /\ envFault' = (envFault \/ IsFault(u))
                          /\ IF u = "ok"
                             THEN /\ txRows' = upsertMigration(txRows,
                                       migrationRow(name, hashFile(migrations[p]), TRUE))
                                  /\ upserted' = Append(upserted, name)
                                  /\ NextEntry
                                  /\ UNCHANGED <<ret, tx, ledger>>
                             ELSE /\ Return(Err("walk migrations: upsert migration",
                                                {u}, NoName))
                                  /\ UNCHANGED <<walkIdx, txRows, upserted>>
  /\ UNCHANGED <<migrations, knownMigrations, ctxDone, runs, before, prev,
                 commitRuns>>

\* err = tx.Commit(); return nil
CommitTx ==
  /\ UNCHANGED <<optVars, procVars>>
  /\ pc = "commit"
  /\ \E o \in TxOutcomes :
       /\ envFault' = (envFault \/ IsFault(o))
       /\ IF o = "ok"
          THEN /\ ledger' = Commit(ledger, txRows)
               /\ tx' = "committed"
               /\ pc' = "idle"
               /\ ret' = Nil
               /\ commitRuns' =
                    [n \in Names |->
                       IF \E i \in 1..Len(executed) : BaseName(executed[i]) = n
                       THEN commitRuns[n] + 1 ELSE commitRuns[n]]
          ELSE /\ Return(Err("commit transaction", {o}, NoName))
               /\ UNCHANGED commitRuns
  /\ UNCHANGED <<migrations, txRows, knownMigrations, walkIdx, ctxDone, runs,
                 before, executed, failedAt, upserted, prev>>

Next ==
  \/ \E fs \in Edits(migrations) : Build(fs)
  \/ Start
  \/ Timeout
  \/ Conn
  \/ BeginTx
  \/ CreateTable
  \/ CheckQuery
  \/ CheckStep
  \/ ApplyQuery
  \/ ApplyStep
  \/ CommitTx

Spec == Init /\ [][Next]_vars

\* ---------------------------------------------- a ledger with foreign rows
\* The table may hold rows the engine did not write: is_applied defaults to
\* FALSE and migration_hash may be NULL. At most one such row is there when
\* the first Migrate() is called.
SeededLedgers ==
  {{}} \cup {{migrationRow(n, h, FALSE)} : n \in Names, h \in Hashes \cup {NullHash}}

InitSeeded ==
  /\ ledger \in SeededLedgers
  /\ migrations = EmptyTree
  /\ pc = "idle"
  /\ tx = "none"
  /\ txRows = {}
  /\ knownMigrations = {}
  /\ walkIdx = 1
  /\ ctxDone = FALSE
  /\ ret = Nil
  /\ runs = 0
  /\ before = {}
  /\ executed = <<>>
  /\ failedAt = {}
  /\ upserted = <<>>
  /\ envFault = FALSE
  /\ prev = [same |-> FALSE, ok |-> FALSE, fromEmpty |-> FALSE,
            failedTree |-> EmptyTree]
  /\ commitRuns = [n \in Names |-> 0]
  /\ opts = <<>>
  /\ options = NewMigrator(<<>>)
  /\ deadline = 0
  /\ clock = 0
  /\ opc = "new"
  /\ granted = <<>>
  /\ ProcsAt("none", TableExists)

SpecSeeded == InitSeeded /\ [][Next]_vars

\* ------------------------------------------------------ the timed Migrate
\* The run against the clock: NewMigrator(opts...), then Migrate() up to the
\* transaction, with timeoutCtx expiring migrationTimeout after the call.
MaxDuration == 2
MaxOpts == 2

\* The timeouts a caller passes, in seconds: short ones and one beyond the
\* default.
Durations == (1..MaxDuration) \cup {DefaultTimeout + 1}

MaxClock == DefaultTimeout + 2

OptionLists == UNION {[1..n -> Durations] : n \in 0..MaxOpts}

\* timeoutCtx is done once its deadline has passed.
Expired == clock >= deadline

InitOptions ==
  /\ ledger = {}
  /\ migrations = EmptyTree
  /\ pc = "idle"
  /\ tx = "none"
  /\ txRows = {}
  /\ knownMigrations = {}
  /\ walkIdx = 1
  /\ ctxDone = FALSE
  /\ ret = Nil
  /\ runs = 0
  /\ before = {}
  /\ executed = <<>>
  /\ failedAt = {}
  /\ upserted = <<>>
  /\ envFault = FALSE
  /\ prev = [same |-> FALSE, ok |-> FALSE, fromEmpty |-> FALSE,
            failedTree |-> EmptyTree]
  /\ commitRuns = [n \in Names |-> 0]
  /\ opts \in OptionLists
  /\ options = [migrationTimeout |-> 0]
  /\ deadline = 0
  /\ clock = 0
  /\ opc = "new"
  /\ granted = <<>>
  /\ ProcsAt("none", TableExists)

\* NewMigrator(db, migrations, opts...)
Construct ==
  /\ opc = "new"
  /\ options' = NewMigrator(opts)
  /\ opc' = "constructed"
  /\ UNCHANGED <<opts, deadline, clock, granted>>
  /\ UNCHANGED <<mainVars, procVars>>

\* context.WithTimeout(context.Background(), m.options.migrationTimeout)
WithTimeout ==
  /\ opc = "constructed"
  /\ deadline' = options.migrationTimeout
  /\ clock' = 0
  /\ opc' = "conn"
  /\ UNCHANGED <<opts, options, granted>>
  /\ UNCHANGED <<mainVars, procVars>>

\* A second passes while Migrate() runs; the transaction does not outlive the
\* deadline.
Tick ==
  /\ opc \in {"conn", "begin", "tx"}
  /\ clock < MaxClock
  /\ ~(opc = "tx" /\ Expired)
  /\ clock' = clock + 1
  /\ UNCHANGED <<opts, options, deadline, opc, granted>>
  /\ UNCHANGED <<mainVars, procVars>>

\* Faulty variant: the connection is acquired under context.Background().
TimedConn_Background ==
  /\ opc' = "begin"
  /\ granted' = Append(granted, clock)

\* m.db.Conn(timeoutCtx)
TimedConn ==
  IF Expired
  THEN opc' = "failed" /\ granted' = granted
  ELSE opc' = "begin" /\ granted' = Append(granted, clock)

AcquireConn ==
  /\ opc = "conn"
  /\ TimedConn
  /\ UNCHANGED <<opts, options, deadline, clock>>
  /\ UNCHANGED <<mainVars, procVars>>

\* conn.BeginTx(timeoutCtx, nil)
TimedBeginTx ==
  /\ opc = "begin"
  /\ IF Expired
     THEN opc' = "failed" /\ granted' = granted
     ELSE opc' = "tx" /\ granted' = Append(granted, clock)
  /\ UNCHANGED <<opts, options, deadline, clock>>
  /\ UNCHANGED <<mainVars, procVars>>

\* database/sql rolls the transaction back when timeoutCtx is done.
Expire ==
  /\ opc = "tx"
  /\ Expired
  /\ opc' = "canceled"
  /\ UNCHANGED <<opts, options, deadline, clock, granted>>
  /\ UNCHANGED <<mainVars, procVars>>

\* The run commits before the deadline.
InTime ==
  /\ opc = "tx"
  /\ ~Expired
  /\ opc' = "done"
  /\ UNCHANGED <<opts, options, deadline, clock, granted>>
  /\ UNCHANGED <<mainVars, procVars>>

NextOptions ==
  \/ Construct
  \/ WithTimeout
  \/ Tick
  \/ AcquireConn
  \/ TimedBeginTx
  \/ Expire
  \/ InTime

SpecOptions == InitOptions /\ [][NextOptions]_vars

\* ------------------------------------------------- concurrent invocations
\* MaxProcs invocations of Migrate() over the same tree against one
\* PostgreSQL database.  BeginTx(timeoutCtx, nil) asks for the default
\* isolation, READ COMMITTED: a statement sees the rows committed before it
\* and the rows of its own transaction; a write to a row that an open
\* transaction has written waits for that transaction to end.
InitConcurrent ==
  /\ ledger = {}
  /\ migrations \in Trees
  /\ pc = "idle"
  /\ tx = "none"
  /\ txRows = {}
  /\ knownMigrations = {}
  /\ walkIdx = 1
  /\ ctxDone = FALSE
  /\ ret = Nil
  /\ runs = 0
  /\ before = {}
  /\ executed = <<>>
  /\ failedAt = {}
  /\ upserted = <<>>
  /\ envFault = FALSE
  /\ prev = [same |-> FALSE, ok |-> FALSE, fromEmpty |-> FALSE,
            failedTree |-> EmptyTree]
  /\ commitRuns = [n \in Names |-> 0]
  /\ opts = <<>>
  /\ options = NewMigrator(<<>>)
  /\ deadline = 0
  /\ clock = 0
  /\ opc = "new"
  /\ granted = <<>>
  /\ \E tableState \in {TableAbsent, TableExists} : ProcsAt("conn", tableState)

\* The rows a statement of invocation i sees: the committed rows, overlaid
\* with the rows of its own transaction.
View(i) ==
  {r \in ledger : r.MigrationName \notin RowNames(procWrites[i])}
    \cup procWrites[i]

\* Another open transaction has written the row of the name.
RowLocked(i, name) ==
  \E j \in Procs \ {i} :
    procTx[j] = "open" /\ name \in RowNames(procWrites[j])

\* Another open transaction has created the table.
TableLocked(i) == table.state = "created" /\ table.by # i

\* The transaction of invocation i ends without committing: its rows and a
\* table it created are gone.
ProcRollback(i) ==
  /\ procTx' = [procTx EXCEPT ![i] = IF @ = "open" THEN "rolledback" ELSE @]
  /\ procWrites' = [procWrites EXCEPT ![i] = {}]
  /\ table' = IF table = TableCreatedBy(i) THEN TableAbsent ELSE table

\* Migrate() of invocation i returns err; the deferred tx.Rollback() runs.
ProcReturn(i, err) ==
  /\ procPc' = [procPc EXCEPT ![i] = "done"]
  /\ procRet' = [procRet EXCEPT ![i] = err]
  /\ ProcRollback(i)

ProcConnOutcomes(i) ==
  IF procDone[i] THEN {"DeadlineExceeded"} ELSE {"ok", "dbErr"}

ProcTxOutcomes(i) ==
  IF procTx[i] = "open" THEN {"ok", "dbErr"} ELSE {"ErrTxDone"}

\* timeoutCtx of invocation i expires: database/sql rolls its transaction
\* back.
ProcTimeout(i) ==
  /\ procPc[i] # "done"
  /\ ~procDone[i]
  /\ procDone' = [procDone EXCEPT ![i] = TRUE]
  /\ ProcRollback(i)
  /\ UNCHANGED <<procPc, procKnown, procIdx, procExecuted, procRet>>
  /\ UNCHANGED <<ledger, migrations, runVars, optVars>>

\* conn, err := m.db.Conn(timeoutCtx)
ProcConn(i) ==
  /\ procPc[i] = "conn"
  /\ \E o \in ProcConnOutcomes(i) :
       IF o = "ok"
       THEN /\ procPc' = [procPc EXCEPT ![i] = "begin"]
            /\ UNCHANGED <<procTx, procWrites, procRet, table>>
       ELSE ProcReturn(i, Err("get connection", {o}, NoName))
  /\ UNCHANGED <<procDone, procKnown, procIdx, procExecuted>>
  /\ UNCHANGED <<ledger, migrations, runVars, optVars>>

\* tx, err := conn.BeginTx(timeoutCtx, nil)
ProcBeginTx(i) ==
  /\ procPc[i] = "begin"
  /\ \E o \in ProcConnOutcomes(i) :
       IF o = "ok"
       THEN /\ procPc' = [procPc EXCEPT ![i] = "createTable"]
            /\ procTx' = [procTx EXCEPT ![i] = "open"]
            /\ UNCHANGED <<procWrites, procRet, table>>
       ELSE ProcReturn(i, Err("begin transaction", {o}, NoName))
  /\ UNCHANGED <<procDone, procKnown, procIdx, procExecuted>>
  /\ UNCHANGED <<ledger, migrations, runVars, optVars>>

\* _, err = tx.Exec(migrationTableQuery): CREATE TABLE IF NOT EXISTS waits
\* for an open transaction that created the table.
ProcCreateTable(i) ==
  /\ procPc[i] = "createTable"
  /\ procTx[i] = "open" => ~TableLocked(i)
  /\ \E o \in ProcTxOutcomes(i) :
       IF o = "ok"
       THEN /\ procPc' = [procPc EXCEPT ![i] = "check"]
            /\ table' = IF table = TableAbsent THEN TableCreatedBy(i) ELSE table
            /\ UNCHANGED <<procTx, procWrites, procRet>>
       ELSE ProcReturn(i, Err("create migrations table", {o}, NoName))
  /\ UNCHANGED <<procDone, procKnown, procIdx, procExecuted>>
  /\ UNCHANGED <<ledger, migrations, runVars, optVars>>

\* The first error of the callback of the first walk over the rows.
CheckWalk(known, tree) ==
  LET order == WalkDir(tree)
      altered == {k \in 1..Len(order) : CheckEntry(known, tree, order[k]) = "altered"}
  IN  IF altered = {} THEN "nil" ELSE "altered"

\* fs.WalkDir(m.migrations, ".", checkIfMigrationsAreAltered(tx, m.migrations))
\* reads the rows once and compares every file with them; any error is
\* answered with ErrMigrationFileChanged.
ProcCheck(i) ==
  /\ procPc[i] = "check"
  /\ \E o \in ProcTxOutcomes(i) :
       IF o = "ok" /\ CheckWalk(View(i), migrations) = "nil"
       THEN /\ procPc' = [procPc EXCEPT ![i] = "applyQuery"]
            /\ UNCHANGED <<procTx, procWrites, procRet, table>>
       ELSE ProcReturn(i, ErrMigrationFileChanged)
  /\ UNCHANGED <<procDone, procKnown, procIdx, procExecuted>>
  /\ UNCHANGED <<ledger, migrations, runVars, optVars>>

\* handleMigration(tx, m.migrations): getMigrationsKnownToDb.
ProcApplyQuery(i) ==
  /\ procPc[i] = "applyQuery"
  /\ \E o \in ProcTxOutcomes(i) :
       IF o = "ok"
       THEN /\ procPc' = [procPc EXCEPT ![i] = "applyWalk"]
            /\ procKnown' = [procKnown EXCEPT ![i] = View(i)]
            /\ procIdx' = [procIdx EXCEPT ![i] = 1]
            /\ UNCHANGED <<procTx, procWrites, procRet, table>>
       ELSE /\ ProcReturn(i, Err("walk migrations: get known migrations", {}, NoName))
            /\ UNCHANGED <<procKnown, procIdx>>
  /\ UNCHANGED <<procDone, procExecuted>>
  /\ UNCHANGED <<ledger, migrations, runVars, optVars>>

\* The callback of the second walk of invocation i moves on.
ProcNextEntry(i) ==
  IF procIdx[i] < Len(WalkDir(migrations))
  THEN /\ procIdx' = [procIdx EXCEPT ![i] = @ + 1]
       /\ UNCHANGED procPc
  ELSE /\ procIdx' = [procIdx EXCEPT ![i] = 1]
       /\ procPc' = [procPc EXCEPT ![i] = "commit"]

ProcExecOutcomes(i, content) ==
  IF procTx[i] # "open" THEN {"ErrTxDone"}
  ELSE IF ValidSql(content) THEN {"ok", "dbErr"} ELSE {"sqlErr"}

\* One call of the callback of the second walk: tx.Exec of the file, then
\* upsertMigration, which waits while another open transaction holds the row
\* of the name.
ProcApplyStep(i) ==
  /\ procPc[i] = "applyWalk"
  /\ LET p == WalkDir(migrations)[procIdx[i]]
         name == BaseName(p)
     IN  IF SkipEntry(procKnown[i], migrations, p)
         THEN /\ ProcNextEntry(i)
              /\ UNCHANGED <<procTx, procWrites, procExecuted, procRet, table>>
         ELSE \E o \in ProcExecOutcomes(i, migrations[p]) :
                IF o # "ok"
                THEN /\ ProcReturn(i, ExecError(name, o))
                     /\ UNCHANGED <<procIdx, procExecuted>>
                ELSE /\ ~RowLocked(i, name)
                     /\ procExecuted' = [procExecuted EXCEPT ![i] = Append(@, p)]
                     /\ \E u \in ProcTxOutcomes(i) :
                          IF u = "ok"
                          THEN /\ procWrites' =
                                    [procWrites EXCEPT ![i] =
                                       upsertMigration(@,
                                         migrationRow(name, hashFile(migrations[p]), TRUE))]
                               /\ ProcNextEntry(i)
                               /\ UNCHANGED <<procTx, procRet, table>>
                          ELSE /\ ProcReturn(i, Err("walk migrations: upsert migration",
                                                    {u}, NoName))
                               /\ UNCHANGED procIdx
  /\ UNCHANGED <<procDone, procKnown>>
  /\ UNCHANGED <<ledger, migrations, runVars, optVars>>

\* What tx.Commit() of invocation i makes of the committed rows.
ProcCommitRows(committed, writes) ==
  {r \in committed : r.MigrationName \notin RowNames(writes)} \cup writes

\* err = tx.Commit(); return nil
ProcCommit(i) ==
  /\ procPc[i] = "commit"
  /\ \E o \in ProcTxOutcomes(i) :
       IF o = "ok"
       THEN /\ ledger' = ProcCommitRows(ledger, procWrites[i])
            /\ procTx' = [procTx EXCEPT ![i] = "committed"]
            /\ procWrites' = [procWrites EXCEPT ![i] = {}]
            /\ table' = IF table = TableCreatedBy(i) THEN TableExists ELSE table
            /\ procPc' = [procPc EXCEPT ![i] = "done"]
            /\ procRet' = [procRet EXCEPT ![i] = Nil]
       ELSE /\ ProcReturn(i, Err("commit transaction", {o}, NoName))
            /\ UNCHANGED ledger
  /\ UNCHANGED <<procDone, procKnown, procIdx, procExecuted>>
  /\ UNCHANGED <<migrations, runVars, optVars>>

NextConcurrent ==
  \E i \in Procs :
    \/ ProcTimeout(i)
    \/ ProcConn(i)
    \/ ProcBeginTx(i)
    \/ ProcCreateTable(i)
    \/ ProcCheck(i)
    \/ ProcApplyQuery(i)
    \/ ProcApplyStep(i)
    \/ ProcCommit(i)

SpecConcurrent == InitConcurrent /\ [][NextConcurrent]_vars

\* ================================================================== claims
\* Migrate() has returned and its result is in ret.
RunEnded == pc = "idle" /\ runs > 0

Range(seq) == {seq[i] : i \in 1..Len(seq)}

FileNames(tree) == {BaseName(p) : p \in DOMAIN tree}

\* Files of the tree whose name has no row.
NewPaths(rows, tree) == {p \in DOMAIN tree : ~HasMigration(rows, BaseName(p))}

\* Some file carries the name of a row and hashes to something else.
Mismatch(rows, tree) ==
  \E r \in rows, p \in DOMAIN tree :
    /\ r.MigrationName = BaseName(p)
    /\ hashFile(tree[p]) # r.MigrationHash

Tampered(rows, tree) ==
  \E r \in rows, p \in DOMAIN tree :
    /\ r.IsApplied
    /\ r.MigrationName = BaseName(p)
    /\ hashFile(tree[p]) # r.MigrationHash

\* C1: a Migrate() that returns an error leaves the committed ledger as it was
\* when the call started, whatever was executed and upserted in the transaction.
C1_FailedRunKeepsLedger == (RunEnded /\ ret # Nil) => ledger = before

C1_Witness == RunEnded /\ ret # Nil /\ Len(upserted) > 0 /\ ledger = before

\* C2: when Migrate() returns, its transaction is committed or rolled back,
\* committed exactly when nil is returned, and after a commit the ledger holds
\* the rows of the transaction (the deferred Rollback undoes nothing).
C2_TxTerminal ==
  RunEnded =>
    /\ tx \in {"none", "committed", "rolledback"}
    /\ (tx = "committed") <=> (ret = Nil)
    /\ ret = Nil => ledger = txRows

C2_Witness == RunEnded /\ ret = Nil /\ tx = "committed" /\ Len(upserted) > 0

C2_WitnessRolledBack == RunEnded /\ ret # Nil /\ tx = "rolledback" /\ Len(upserted) > 0

\* The file of name n that the walk visits last.
LastPath(tree, n) ==
  CHOOSE p \in DOMAIN tree :
    /\ BaseName(p) = n
    /\ \A q \in DOMAIN tree : BaseName(q) = n => (q = p \/ PathLess(q, p))

\* C3 as stated: from an empty ledger a successful Migrate() leaves exactly one
\* applied record per file of the tree, whatever the directory layout, with the
\* hash of the file's content.
C3_OneRecordPerFile ==
  (RunEnded /\ before = {} /\ ret = Nil) =>
    /\ Cardinality(ledger) = Cardinality(DOMAIN migrations)
    /\ \A r \in ledger : r.IsApplied
    /\ \A p \in DOMAIN migrations :
         migrationRow(BaseName(p), hashFile(migrations[p]), TRUE) \in ledger

\* C3 amended: from an empty ledger a successful Migrate() leaves exactly one
\* applied record per distinct file name (N records for N files of pairwise
\* distinct names), with the hash of the content of the file of that name the
\* walk visits last.
C3_OneRecordPerName ==
  (RunEnded /\ before = {} /\ ret = Nil) =>
    ledger = {migrationRow(n, hashFile(migrations[LastPath(migrations, n)]), TRUE) :
                n \in FileNames(migrations)}

C3_Witness ==
  /\ RunEnded /\ before = {} /\ ret = Nil
  /\ Cardinality(DOMAIN migrations) = 2
  /\ Cardinality(ledger) = 2

C3_WitnessSameName ==
  /\ RunEnded /\ before = {} /\ ret = Nil
  /\ Cardinality(DOMAIN migrations) = 2
  /\ Cardinality(ledger) = 1

\* C4: after a successful Migrate() from an empty ledger, a second Migrate() with
\* the same tree (the database answering, no timeout) succeeds, executes
\* nothing and leaves the ledger as the first run left it.
C4_Idempotent ==
  (RunEnded /\ prev.same /\ prev.ok /\ prev.fromEmpty /\ ~envFault) =>
    /\ ret = Nil
    /\ executed = <<>>
    /\ ledger = before

\* C5: when the ledger holds an applied record whose name is the name of a file
\* that hashes to something else, Migrate() fails and the ledger is unchanged,
\* whatever other files are present; the error is ErrMigrationFileChanged
\* unless the database failed or the timeout expired first.
C5_TamperDetected ==
  (RunEnded /\ Tampered(before, migrations)) =>
    /\ ret # Nil
    /\ ledger = before
    /\ ~envFault => ret = ErrMigrationFileChanged

C5_Witness ==
  /\ RunEnded /\ ~envFault
  /\ Tampered(before, migrations)
  /\ NewPaths(before, migrations) # {}
  /\ ret = ErrMigrationFileChanged

\* C6: when the execution of a file fails, the walk stops there: the file is
\* not upserted, every executed file was visited before it, and the error of
\* Migrate() matches ErrMigrationFailed, carries the database's error and names
\* the file.
C6_ExecutionFailure ==
  \A p \in failedAt :
    /\ RunEnded
    /\ failedAt = {p}
    /\ p \notin Range(executed)
    /\ Len(upserted) = Len(executed)
    /\ \A i \in 1..Len(executed) :
         PathLess(executed[i], p) /\ upserted[i] = BaseName(executed[i])
    /\ ErrorsIs(ret, "ErrMigrationFailed")
    /\ \E cause \in {"sqlErr", "dbErr", "ErrTxDone"} : ErrorsIs(ret, cause)
    /\ ret.name = BaseName(p)
    /\ ledger = before

C6_Witness ==
  /\ RunEnded
  /\ failedAt # {}
  /\ ErrorsIs(ret, "ErrMigrationFailed")
  /\ ErrorsIs(ret, "sqlErr")
  /\ \E q \in NewPaths(before, migrations) :
       q \notin failedAt /\ q \notin Range(executed) /\ ValidSql(migrations[q])

C6_WitnessAfterExecuted ==
  /\ RunEnded
  /\ failedAt # {}
  /\ Len(upserted) > 0
  /\ ErrorsIs(ret, "ErrMigrationFailed")

\* C7: over any sequence of runs, a name is executed in at most one committed
\* run, and a file whose record is applied when a run starts is not executed
\* in that run.
C7_AppliedOnce ==
  /\ \A n \in Names : commitRuns[n] <= 1
  /\ \A i \in 1..Len(executed) :
       ~\E r \in before : r.MigrationName = BaseName(executed[i]) /\ r.IsApplied

C7_Witness ==
  /\ RunEnded /\ runs = 2 /\ ret = Nil
  /\ Len(executed) > 0
  /\ \E p \in DOMAIN migrations :
       /\ p \notin Range(executed)
       /\ commitRuns[BaseName(p)] = 1

\* C8: when every record is applied and matches the file of its name, and the
\* tree also holds (valid) files without a record, Migrate() succeeds (the
\* database answering, no timeout), executes exactly the files without a
\* record, adds an applied record for each of their names and leaves the
\* records it found unchanged.
C8_Incremental ==
  LET new == NewPaths(before, migrations)
  IN  ( /\ RunEnded /\ ~envFault
        /\ before # {}
        /\ \A r \in before : r.IsApplied
        /\ ~Mismatch(before, migrations)
        /\ new # {}
        /\ \A p \in new : ValidSql(migrations[p]) ) =>
        /\ ret = Nil
        /\ Range(executed) = new
        /\ Len(executed) = Cardinality(new)
        /\ before \subseteq ledger
        /\ RowNames(ledger \ before) = {BaseName(p) : p \in new}
        /\ \A r \in ledger \ before : r.IsApplied

C8_Witness ==
  /\ RunEnded /\ ~envFault /\ ret = Nil
  /\ before # {}
  /\ \E p \in NewPaths(before, migrations), q \in DOMAIN migrations :
       /\ HasMigration(before, BaseName(q))
       /\ BaseName(p) < BaseName(q)
       /\ p \in Range(executed)

\* C9 as stated: two files executed in one run are executed in the order of
\* their names, in whatever directories they live.
C9_NameOrder ==
  \A i, j \in 1..Len(executed) :
    BaseName(executed[i]) < BaseName(executed[j]) => i < j

\* The directory of a file.
Parent(p) == SubSeq(p, 1, Len(p) - 1)

\* C9 amended: two files executed in one run are executed in the order in
\* which fs.WalkDir visits their paths (a directory's entries in ascending
\* order of their names, a subdirectory's files at the place of the
\* subdirectory); for two files of the same directory this is the ascending
\* order of their names.
C9_WalkOrder ==
  \A i, j \in 1..Len(executed) :
    /\ i < j => PathLess(executed[i], executed[j])
    /\ ( /\ Parent(executed[i]) = Parent(executed[j])
         /\ BaseName(executed[i]) < BaseName(executed[j]) ) => i < j

C9_Witness ==
  /\ Len(executed) = 2
  /\ Parent(executed[1]) # Parent(executed[2])
  /\ BaseName(executed[1]) > BaseName(executed[2])

C9_WitnessSameDirectory ==
  /\ Len(executed) = 2
  /\ Parent(executed[1]) = Parent(executed[2])
  /\ BaseName(executed[1]) < BaseName(executed[2])

\* C10: Migrate() returns ErrMigrationFileChanged only when a file that carries
\* the name of a ledger record hashes to something else than the record (and
\* then it does, the database answering); a failure to read the ledger or a
\* canceled transaction is not reported as ErrMigrationFileChanged.
C10_FileChangedIffMismatch ==
  RunEnded =>
    /\ ret = ErrMigrationFileChanged => Mismatch(before, migrations)
    /\ (Mismatch(before, migrations) /\ ~envFault) => ret = ErrMigrationFileChanged

\* The run is between the call of Migrate() and its return.
Running == pc \notin {"idle", "built"}

\* C11: once the timeout has expired on a begun transaction, the transaction
\* is rolled back, the ledger is as it was when the run started, no further
\* file is executed or upserted, and Migrate() returns an error.
C11_TimeoutRollsBack ==
  [][ (Running /\ ctxDone /\ tx # "none") =>
        /\ tx = "rolledback" /\ tx' = "rolledback"
        /\ ledger = before /\ ledger' = before
        /\ executed' = executed
        /\ upserted' = upserted
        /\ pc' = "idle" => ret' # Nil ]_vars

C11_Witness ==
  /\ RunEnded /\ ctxDone
  /\ tx = "rolledback"
  /\ Len(upserted) > 0
  /\ \E p \in NewPaths(before, migrations) : p \notin Range(executed)
  /\ ret # Nil
  /\ ledger = before

\* The timeout the caller asked for: the last option's, else ten seconds.
Requested == IF Len(opts) = 0 THEN 10 ELSE opts[Len(opts)]

\* C12: a Migrator built with no options bounds the run by 10 seconds, one
\* built with WithMigrationTimeout(d) by d, and of several options the last
\* wins; the one bound governs both the acquisition of the connection and the
\* transaction: neither is granted at or after it, the transaction is open
\* no longer than it, and nothing is cut short before it.
C12_TimeoutConfiguration ==
  /\ opc # "new" => options.migrationTimeout = Requested
  /\ opc \notin {"new", "constructed"} => deadline = Requested
  /\ \A i \in DOMAIN granted : granted[i] < Requested
  /\ opc = "tx" => clock <= Requested
  /\ opc \in {"canceled", "failed"} => clock >= Requested

\* Two different timeouts were passed; the connection and the transaction
\* were granted and the transaction was rolled back at the second timeout.
C12_Witness ==
  /\ opc = "canceled"
  /\ Len(opts) = 2
  /\ opts[1] # opts[2]
  /\ Len(granted) = 2
  /\ clock = opts[2]

\* No option was passed and the run was cut at ten seconds.
C12_WitnessDefault ==
  /\ opc \in {"canceled", "failed"}
  /\ opts = <<>>
  /\ clock = 10


\* The tree is the failed run's tree with its invalid files corrected: the
\* files are the same, the valid ones are unchanged and all are valid now.
CorrectionOf(tree, failed) ==
  /\ failed # EmptyTree
  /\ DOMAIN tree = DOMAIN failed
  /\ \A p \in DOMAIN tree :
       /\ ValidSql(tree[p])
       /\ ValidSql(failed[p]) => tree[p] = failed[p]

\* C19: a run in which a file executes and a later one fails leaves no record
\* for any file it executed or failed on; the next Migrate(), with the failed
\* content corrected and nothing else failing, returns nil, executes every
\* file once and leaves each recorded as applied with its hash.
C19_RecoveryAfterFailedRun ==
  /\ (RunEnded /\ ErrorsIs(ret, "ErrMigrationFailed")) =>
       \A p \in Range(executed) \cup failedAt :
         ~HasMigration(before, BaseName(p)) => ~HasMigration(ledger, BaseName(p))
  /\ (RunEnded /\ ~envFault /\ CorrectionOf(migrations, prev.failedTree)
        /\ FileNames(migrations) \cap RowNames(before) = {}) =>
       /\ ret = Nil
       /\ Range(executed) = DOMAIN migrations
       /\ Len(executed) = Cardinality(DOMAIN migrations)
       /\ \A n \in FileNames(migrations) :
            migrationRow(n, hashFile(migrations[LastPath(migrations, n)]), TRUE)
              \in ledger

\* The first run executed one file and failed on the second, leaving the
\* ledger empty; the second run, over the corrected tree, applied both.
C19_Witness ==
  /\ RunEnded
  /\ runs = 2
  /\ ~envFault
  /\ CorrectionOf(migrations, prev.failedTree)
  /\ migrations # prev.failedTree
  /\ before = {}
  /\ ret = Nil
  /\ Len(executed) = 2
  /\ Cardinality(ledger) = 2


\* Files of the tree whose name has a record that is not applied.
PendingPaths(rows, tree) ==
  {p \in DOMAIN tree :
     \E r \in rows : r.MigrationName = BaseName(p) /\ ~r.IsApplied}

\* C15: when the ledger holds a record of a name with applied = false,
\* whatever its hash, and the tree has a file of that name, a Migrate() in
\* which nothing else fails (no fault of the database, no applied file
\* altered, every file valid) executes the file, returns nil and leaves the
\* record as {name, hash of the content, applied = true}.
C15_NotAppliedIsExecuted ==
  (RunEnded /\ ~envFault /\ ~Tampered(before, migrations)
     /\ \A p \in DOMAIN migrations : ValidSql(migrations[p])) =>
    \A p \in PendingPaths(before, migrations) :
      /\ ret = Nil
      /\ p \in Range(executed)
      /\ migrationRow(BaseName(p),
                      hashFile(migrations[LastPath(migrations, BaseName(p))]),
                      TRUE) \in ledger

\* C17: in the committed ledger every applied record has a hash, and a
\* record that is committed as applied is in every later committed ledger
\* with the same hash and the same flag.
C17_HashStability ==
  [][ /\ \A r \in ledger' : r.IsApplied => r.MigrationHash \in Hashes
      /\ \A r \in ledger : r.IsApplied => r \in ledger' ]_vars

\* A second run committed new records over a tree that still holds the file
\* of a record applied before, which is kept as it was.
C17_Witness ==
  /\ RunEnded
  /\ runs = 2
  /\ ret = Nil
  /\ ledger # before
  /\ \E r \in before :
       /\ r.IsApplied
       /\ r.MigrationName \in FileNames(migrations)
       /\ r \in ledger

\* A record not applied became applied, with the hash of the file.
C17_WitnessSeeded ==
  /\ RunEnded
  /\ ret = Nil
  /\ \E r \in before :
       /\ ~r.IsApplied
       /\ migrationRow(r.MigrationName, r.MigrationHash, TRUE) \in ledger

\* Records whose name no file of the tree carries.
Orphans(rows, tree) == {r \in rows : r.MigrationName \notin FileNames(tree)}

\* C18: no step removes the record of a name from the committed ledger, a
\* record whose name no file of the tree carries stays exactly as it was, and
\* a Migrate() over a ledger with such a record in which nothing else fails
\* (no fault of the database, no file altered, every new file valid) returns
\* nil.
C18_OrphansUntouched ==
  [][ /\ RowNames(ledger) \subseteq RowNames(ledger')
      /\ Orphans(ledger, migrations) \subseteq ledger'
      /\ ( /\ pc' = "idle"
           /\ runs' > 0
           /\ ~envFault'
           /\ Orphans(before', migrations') # {}
           /\ ~Mismatch(before', migrations')
           /\ \A p \in NewPaths(before', migrations') : ValidSql(migrations'[p]) )
         => ret' = Nil ]_vars

\* A run over a tree from which the file of a record was removed committed a
\* new record and kept the orphan.
C18_Witness ==
  /\ RunEnded
  /\ ret = Nil
  /\ ledger # before
  /\ \E r \in Orphans(before, migrations) : r \in ledger


\* The order of the steps of Migrate().
PhaseOrder ==
  {<<"conn", "begin">>, <<"begin", "createTable">>, <<"createTable", "checkQuery">>,
   <<"checkQuery", "checkWalk">>, <<"checkWalk", "applyQuery">>,
   <<"applyQuery", "applyWalk">>, <<"applyWalk", "commit">>}

\* C13: a run moves through begin, table creation, integrity check, apply and
\* commit in this order, one step after the success of the one before; it
\* returns nil only from a successful commit, files are executed only in the
\* apply step, the ledger is written only by the commit, and a step that
\* fails ends the run with an error.
C13_PhaseOrder ==
  [][ Running =>
        /\ pc' # pc =>
             \/ <<pc, pc'>> \in PhaseOrder
             \/ pc' = "idle" /\ ret' # Nil
             \/ pc' = "idle" /\ pc = "commit" /\ ret' = Nil /\ tx' = "committed"
        /\ (pc \in {"conn", "begin"} /\ pc' # pc) => tx = "none"
        /\ executed' # executed => pc = "applyWalk"
        /\ upserted' # upserted => pc = "applyWalk"
        /\ ledger' # ledger => pc = "commit"
        /\ ret' # Nil => pc' = "idle" ]_vars

C13_Witness ==
  /\ RunEnded /\ ret = Nil
  /\ tx = "committed"
  /\ Len(executed) = 2
  /\ ledger # before

\* C14: in a run in which a file that carries the name of a record hashes to
\* something else than the record, no file is executed or upserted, also when
\* the altered file is visited after new valid files.
C14_FailClosed ==
  (pc # "built" /\ Mismatch(before, migrations)) =>
    /\ executed = <<>>
    /\ upserted = <<>>
    /\ failedAt = {}
    /\ ret # Nil \/ Running

C14_Witness ==
  /\ RunEnded /\ ~envFault
  /\ ret = ErrMigrationFileChanged
  /\ \E p \in NewPaths(before, migrations), q \in DOMAIN migrations :
       /\ ValidSql(migrations[p])
       /\ PathLess(p, q)
       /\ HasMigration(before, BaseName(q))
       /\ hashFile(migrations[q]) # findMigrationByName(before, BaseName(q)).MigrationHash

\* Causes that stand for the expired context.
TimeoutCauses == {"DeadlineExceeded", "ErrTxDone"}

\* C16: a run that fails because the timeout expired (no file is altered)
\* returns a context/timeout error that is neither ErrMigrationFileChanged nor
\* an error matching ErrMigrationFailed.
C16_TimeoutErrorKind ==
  (RunEnded /\ ctxDone /\ ~Mismatch(before, migrations)) =>
    /\ \E cause \in TimeoutCauses : ErrorsIs(ret, cause)
    /\ ret # ErrMigrationFileChanged
    /\ ~ErrorsIs(ret, "ErrMigrationFailed")

\* The first file of the walk that carries the name of a record and hashes to
\* something else.
FirstMismatch(rows, tree) ==
  CHOOSE p \in DOMAIN tree :
    /\ CheckEntry(rows, tree, p) = "altered"
    /\ \A q \in DOMAIN tree : CheckEntry(rows, tree, q) = "altered" => (q = p \/ PathLess(p, q))

\* C20: when the integrity check finds a mismatch, the error of Migrate()
\* names the first mismatching file of the walk.
C20_ErrorNamesOffender ==
  (RunEnded /\ ret = ErrMigrationFileChanged /\ Mismatch(before, migrations)) =>
    ret.name = BaseName(FirstMismatch(before, migrations))

\* C21: within one Migrate() at most one file is executed per ledger name and
\* no name is upserted twice, also when files of different directories carry
\* the same base name.
C21_OneExecutionPerName ==
  /\ \A i, j \in 1..Len(executed) :
       BaseName(executed[i]) = BaseName(executed[j]) => i = j
  /\ \A i, j \in 1..Len(upserted) : upserted[i] = upserted[j] => i = j

\* The invocations that have committed having executed the file.
CommittedExecutions(p) ==
  {i \in Procs : procTx[i] = "committed" /\ p \in Range(procExecuted[i])}

OneRecordPerName(rows) ==
  \A r1, r2 \in rows : r1.MigrationName = r2.MigrationName => r1 = r2

\* C22 as stated: of concurrent invocations over the same tree from an empty
\* ledger at most one commits having executed a given file, and the
\* committed ledger holds at most one record per name.
C22_CommittedOnce ==
  /\ \A p \in DOMAIN migrations : Cardinality(CommittedExecutions(p)) <= 1
  /\ OneRecordPerName(ledger)

\* C22 amended: the committed ledger holds at most one record per name, every
\* record is applied and carries the hash of a file of its name, and an
\* invocation executes a file at most once; nothing keeps two invocations
\* from both committing having executed the same file.
C22_OneRecordPerNameConcurrent ==
  /\ OneRecordPerName(ledger)
  /\ \A r \in ledger :
       /\ r.IsApplied
       /\ \E p \in DOMAIN migrations :
            BaseName(p) = r.MigrationName /\ r.MigrationHash = hashFile(migrations[p])
  /\ \A i \in Procs : \A k, l \in 1..Len(procExecuted[i]) :
       procExecuted[i][k] = procExecuted[i][l] => k = l

\* Both invocations returned nil, both executed the same two files, and the
\* ledger holds one record for each of the two names.
C22_Witness ==
  /\ \A i \in Procs : procPc[i] = "done" /\ procRet[i] = Nil
  /\ \E p, q \in DOMAIN migrations :
       /\ BaseName(p) # BaseName(q)
       /\ \A i \in Procs : {p, q} \subseteq Range(procExecuted[i])
  /\ Cardinality(ledger) = 2
  /\ OneRecordPerName(ledger)

====
